---- MODULE Spec2Model ----
(***************************************************************************)
(* A model of ext/geos_c_impl/geometry_collection.c of rgeo: the           *)
(* constructor of geometry collections (create_geometry_collection), the   *)
(* collection accessors (geometry_n, [], each), MultiLineString#is_closed? *)
(* and the structural comparator rgeo_geos_geometry_collections_eql.       *)
(*                                                                         *)
(* Ruby VALUEs are records with a "class" field.  Engine (GEOS) handles    *)
(* are integers: NULL is 0, the handle converted from array element k      *)
(* (0-based) is k+1 and the handle of the assembled collection is len+1.   *)
(* Calls into the engine that may fail are nondeterministic choices.       *)
(***************************************************************************)
EXTENDS Integers, Sequences, FiniteSets, TLC

(* ---------------------------- bounds ----------------------------------- *)
MaxLen == 3        \* longest element array passed to a create method
MaxEqlLen == 2     \* largest child count of the collections compared
MaxNestLen == 1    \* largest child count of a collection nested in them

(* ------------------------ GEOS type ids (geos_c.h) --------------------- *)
GEOS_POINT == 0
GEOS_LINESTRING == 1
GEOS_LINEARRING == 2
GEOS_POLYGON == 3
GEOS_MULTIPOINT == 4
GEOS_MULTILINESTRING == 5
GEOS_MULTIPOLYGON == 6
GEOS_GEOMETRYCOLLECTION == 7

CollectionTypes ==
  {GEOS_GEOMETRYCOLLECTION, GEOS_MULTIPOINT, GEOS_MULTILINESTRING, GEOS_MULTIPOLYGON}

(* ------------------------------ VALUEs --------------------------------- *)
Qnil == [class |-> "NilClass"]
Qtrue == [class |-> "TrueClass"]
Qfalse == [class |-> "FalseClass"]
NIL_P(v) == v = Qnil
RTEST(v) == v # Qnil /\ v # Qfalse

NULL == 0

\* The subtype tags (klass) a conversion can hand back.
Klasses == {[class |-> "Class", name |-> "K1"]}

\* The shapes of the element geometries.  As a polygon, shape s is the unit
\* square whose lower left corner is (s % 2, s \div 2); as a line string,
\* shape s is a ring (closed) exactly when s is even.
Shapes == {0, 1, 3}

\* The factory flags; bit 0 set means "skip the MultiPolygon assertions"
\* (0: no flag set; 1: only that bit set; 2: another bit set, that bit clear).
FlagValues == {0, 1, 2}

\* A caller element: how its conversion ends, the tag it yields and its shape.
Elements ==
  [conv : {"ok"}, klass : Klasses \cup {Qnil}, g : Shapes]
    \cup [conv : {"mismatch", "owned"}, klass : {Qnil}, g : {0}]

Arrays == UNION {[1..n -> Elements] : n \in 0..MaxLen}

VARIABLES
  pc,          \* position of the program
  type,        \* create: the GEOS type id requested
  flags,       \* create: factory_data->flags
  array,       \* create: the Ruby array of elements
  i, j,        \* create: the loop counters (0-based, as in the C code)
  geoms,       \* create: the buffer of converted handles
  klasses,     \* create: Qnil or a Ruby array of tags
  collection,  \* create: the handle GEOSGeom_createCollection_r returned
  result,      \* create: the VALUE returned
  children,    \* engine: the handles the assembled collection owns
  alive,       \* engine: the handles that exist
  destroyed,   \* engine: how often each handle of this call was destroyed
  assembled,   \* engine: the outcomes of the GEOSGeom_createCollection_r calls
  ret,         \* accessors: the method called last, its argument and value
  yielded,     \* each: the VALUEs passed to the block so far
  eql,         \* comparator: the locals of the outermost call
  failures     \* history: kind and result of the failed create calls returned from

createVars == <<type, flags, array, geoms, klasses, collection, result,
                children, alive, destroyed, assembled, failures>>

vars == <<pc, type, flags, array, i, j, geoms, klasses, collection, result,
          children, alive, destroyed, assembled, ret, yielded, eql, failures>>

len == Len(array)

(* ---------------------- element conversion ----------------------------- *)
\* rgeo_convert_to_detached_geos_geometry: a fresh detached handle, or NULL
\* when the element has the wrong type or is owned elsewhere.
rgeo_convert_to_detached_geos_geometry(elem, h) ==
  IF elem.conv = "ok" THEN h ELSE NULL

rb_ary_push(ary, v) == [class |-> "Array", ary |-> Append(ary.ary, v)]

\* The tag array made without the backfill.
BackfilledKlasses_empty(n) == [class |-> "Array", ary |-> <<>>]

\* rb_ary_new2(len) followed by the backfill loop of lines 92-94.
BackfilledKlasses(n) == [class |-> "Array", ary |-> [k \in 1..n |-> Qnil]]

\* Lines 90-98: the tag array after element i (0-based) yielded klass.
UpdateKlasses(old, klass, n) ==
  LET made == IF ~NIL_P(klass) /\ NIL_P(old) THEN BackfilledKlasses(n) ELSE old
  IN IF ~NIL_P(made) THEN rb_ary_push(made, klass) ELSE made

\* The rollback loop stopping one handle early.
RollbackHandles_short(n) == {geoms[k + 1] : k \in 0..(n - 2)}

\* Lines 101-103: the handles the rollback loop destroys (j = 0 .. i-1).
RollbackHandles(n) == {geoms[k + 1] : k \in 0..(n - 1)}

\* GEOSGeom_destroy_r on a set of handles.
Destroy(hs) ==
  /\ alive' = alive \ hs
  /\ destroyed' = [h \in DOMAIN destroyed |->
                     IF h \in hs THEN destroyed[h] + 1 ELSE destroyed[h]]

(* ------------------------- relate patterns ----------------------------- *)
CellX(s) == s % 2
CellY(s) == s \div 2
Abs(x) == IF x < 0 THEN -x ELSE x

\* The interiors of the two unit squares share area.
InteriorsOverlap(s, t) == s = t
\* The boundaries of the two unit squares share a segment.
BoundariesShareLine(s, t) ==
  \/ s = t
  \/ Abs(CellX(s) - CellX(t)) + Abs(CellY(s) - CellY(t)) = 1

\* GEOSRelatePattern_r: 1 match, 0 no match, 2 exception.
GEOSRelatePattern(s, t, pattern, exc) ==
  IF exc THEN 2
  ELSE IF pattern = "2********" THEN (IF InteriorsOverlap(s, t) THEN 1 ELSE 0)
  ELSE (IF BoundariesShareLine(s, t) THEN 1 ELSE 0)

\* Only the interior pattern tested.
PairProblem_interiorOnly(s, t, exc2, exc1) ==
  GEOSRelatePattern(s, t, "2********", exc2)

\* Lines 113-122: the two pattern tests of one pair; the value of problem.
PairProblem(s, t, exc2, exc1) ==
  LET p2 == GEOSRelatePattern(s, t, "2********", exc2)
  IN IF p2 # 0 THEN p2 ELSE GEOSRelatePattern(s, t, "****1****", exc1)

\* The assertions checked whatever the flags say.
ChecksAssertions_always(c, ty, fl) ==
  c # NULL /\ ty = GEOS_MULTIPOLYGON

\* Line 109: the MultiPolygon assertions are checked.
ChecksAssertions(c, ty, fl) ==
  c # NULL /\ ty = GEOS_MULTIPOLYGON /\ (fl % 2) = 0

(* ------------------------------ create --------------------------------- *)
NoReturn == [op |-> "none", n |-> 0, value |-> Qnil]

\* The result starting out as false instead of nil.
InitialResult_false == Qfalse

\* Line 62.
InitialResult == Qnil

\* Lines 60-83 and the first loop test of line 84.
create_geometry_collection(ty, fl, arr) ==
  /\ pc = "idle"
  /\ type' = ty
  /\ flags' = fl
  /\ array' = arr
  /\ i' = 0
  /\ j' = 0
  /\ geoms' = <<>>
  /\ klasses' = Qnil
  /\ collection' = NULL
  /\ result' = InitialResult
  /\ children' = <<>>
  /\ alive' = {}
  /\ destroyed' = [h \in 1..(Len(arr) + 1) |-> 0]
  /\ assembled' = <<>>
  /\ UNCHANGED <<ret, yielded, eql, failures>>
  /\ pc' = IF Len(arr) = 0 THEN "after_loop" ELSE "convert"

\* Lines 84-99: one iteration of the conversion loop.
create_convert ==
  /\ pc = "convert"
  /\ LET elem == array[i + 1]
         geom == rgeo_convert_to_detached_geos_geometry(elem, i + 1)
     IN IF geom = NULL
        THEN /\ pc' = "after_loop"
             /\ UNCHANGED <<i, geoms, klasses, alive>>
        ELSE /\ geoms' = Append(geoms, geom)
             /\ alive' = alive \cup {geom}
             /\ klasses' = UpdateKlasses(klasses, elem.klass, i)
             /\ i' = i + 1
             /\ pc' = IF i + 1 < len THEN "convert" ELSE "after_loop"
  /\ UNCHANGED <<type, flags, array, j, collection, result, children,
                 destroyed, assembled, ret, yielded, eql, failures>>

\* Lines 100-104 and 142-145: a conversion failed; destroy what was converted.
create_rollback ==
  /\ pc = "after_loop"
  /\ i # len
  /\ Destroy(RollbackHandles(i))
  /\ j' = i
  /\ geoms' = <<>>
  /\ pc' = "done"
  /\ UNCHANGED <<type, flags, array, i, klasses, collection, result,
                 children, assembled, ret, yielded, eql, failures>>

\* Lines 105-109: ask the engine to assemble the collection.  The engine
\* may fail; whether it then destroys the elements is its own business
\* (the NOTE of lines 137-140).
create_assemble(outcome) ==
  /\ pc = "after_loop"
  /\ i = len
  /\ assembled' = Append(assembled, outcome)
  /\ IF outcome = "ok"
     THEN /\ collection' = len + 1
          /\ children' = geoms
          /\ alive' = alive \cup {len + 1}
          /\ UNCHANGED destroyed
     ELSE /\ collection' = NULL
          /\ UNCHANGED children
          /\ IF outcome = "failed_and_freed"
             THEN Destroy({geoms[k] : k \in 1..Len(geoms)})
             ELSE UNCHANGED <<alive, destroyed>>
  /\ IF ChecksAssertions(collection', type, flags) /\ 1 < len
     THEN /\ pc' = "validate"
          /\ i' = 1
          /\ j' = 0
     ELSE /\ pc' = "wrap"
          /\ i' = IF ChecksAssertions(collection', type, flags) THEN 1 ELSE i
          /\ UNCHANGED j
  /\ UNCHANGED <<type, flags, array, geoms, klasses, result, ret, yielded, eql, failures>>

\* Lines 111-132: one pair (i, j) of the MultiPolygon assertions.
create_validate(exc2, exc1) ==
  /\ pc = "validate"
  /\ LET problem == PairProblem(array[geoms[i + 1]].g, array[geoms[j + 1]].g,
                                exc2, exc1)
     IN IF problem # 0
        THEN /\ Destroy({collection} \cup {children[k] : k \in 1..Len(children)})
             /\ children' = <<>>
             /\ collection' = NULL
             /\ pc' = "wrap"
             /\ UNCHANGED <<i, j>>
        ELSE /\ UNCHANGED <<alive, destroyed, children, collection>>
             /\ IF j + 1 < i
                THEN /\ j' = j + 1
                     /\ i' = i
                     /\ pc' = "validate"
                ELSE /\ j' = IF i + 1 < len THEN 0 ELSE j + 1
                     /\ i' = i + 1
                     /\ pc' = IF i + 1 < len THEN "validate" ELSE "wrap"
  /\ UNCHANGED <<type, flags, array, geoms, klasses, result, assembled,
                 ret, yielded, eql, failures>>

\* rgeo_wrap_geos_geometry and line 135.
WrappedCollection(c, ty, ks) ==
  [class |-> "Geometry", geom |-> c, type |-> ty, klasses |-> ks]

\* Lines 133-136 and 142-145.
create_wrap ==
  /\ pc = "wrap"
  /\ result' = IF collection # NULL
               THEN WrappedCollection(collection, type, klasses)
               ELSE result
  /\ geoms' = <<>>
  /\ pc' = "done"
  /\ UNCHANGED <<type, flags, array, i, j, klasses, collection, children,
                 alive, destroyed, assembled, ret, yielded, eql, failures>>

(* ----------------------------- accessors ------------------------------ *)
\* The receiver of the accessor methods: the collection create returned.
self == result

\* GEOSGetNumGeometries_r: the child count, or -1 on an engine exception.
GEOSGetNumGeometries(ok) == IF ok THEN Len(children) ELSE -1

\* GEOSGetGeometryN_r: the handle of child idx (0-based).
GEOSGetGeometryN(idx) == children[idx + 1]

\* rb_ary_entry on the tag array.
rb_ary_entry(ary, idx) ==
  IF idx + 1 \in DOMAIN ary.ary THEN ary.ary[idx + 1] ELSE Qnil

\* rgeo_wrap_geos_geometry_clone: a caller object around a copy of handle h,
\* or nil when the handle is NULL or the engine cannot clone it.
rgeo_wrap_geos_geometry_clone(h, klass, cloneOk) ==
  IF h = NULL \/ ~cloneOk THEN Qnil
  ELSE [class |-> "Geometry", clone_of |-> h, g |-> array[h].g, klass |-> klass]

\* Line 194: the index is accepted.
IndexAccepted(n, allow_negatives) == allow_negatives \/ n >= 0

\* Lines 186-208.
impl_geometry_n(obj, n, allow_negatives, countOk, cloneOk) ==
  IF obj.geom = NULL THEN Qnil
  ELSE IF ~IndexAccepted(n, allow_negatives) THEN Qnil
  ELSE LET cnt == GEOSGetNumGeometries(countOk)
           idx == IF n < 0 THEN n + cnt ELSE n
       IN IF idx >= 0 /\ idx < cnt
          THEN rgeo_wrap_geos_geometry_clone(GEOSGetGeometryN(idx),
                 IF NIL_P(obj.klasses) THEN Qnil
                 ELSE rb_ary_entry(obj.klasses, idx), cloneOk)
          ELSE Qnil

\* What a VALUE function that ends without a return statement hands to its
\* caller: undefined; the value computed last, or anything else.
Garbage == [class |-> "Undefined"]
ValueOfMissingReturn(computed) == {computed, Qnil, Garbage}

\* Lines 211-214: geometry_n calls impl_geometry_n and drops its value.
method_geometry_collection_geometry_n(n, countOk, cloneOk) ==
  /\ pc = "done"
  /\ ~NIL_P(self)
  /\ \E v \in ValueOfMissingReturn(impl_geometry_n(self, n, FALSE, countOk, cloneOk)) :
       ret' = [op |-> "geometry_n", n |-> n, value |-> v,
               engineOk |-> countOk /\ cloneOk]
  /\ pc' = "returned"
  /\ UNCHANGED <<i, j, yielded, eql>>
  /\ UNCHANGED createVars

\* Lines 217-220: [] calls impl_geometry_n and drops its value.
method_geometry_collection_brackets(n, countOk, cloneOk) ==
  /\ pc = "done"
  /\ ~NIL_P(self)
  /\ \E v \in ValueOfMissingReturn(impl_geometry_n(self, n, TRUE, countOk, cloneOk)) :
       ret' = [op |-> "brackets", n |-> n, value |-> v,
               engineOk |-> countOk /\ cloneOk]
  /\ pc' = "returned"
  /\ UNCHANGED <<i, j, yielded, eql>>
  /\ UNCHANGED createVars

\* Lines 223-232: each, up to the first test of its loop.
method_geometry_collection_each(countOk) ==
  /\ pc = "done"
  /\ ~NIL_P(self)
  /\ i' = 0
  /\ yielded' = <<>>
  /\ IF self.geom # NULL /\ GEOSGetNumGeometries(countOk) > 0
     THEN /\ pc' = "each"
          /\ ret' = [op |-> "each", n |-> GEOSGetNumGeometries(countOk),
                     value |-> Qnil, skipped |-> {}]
     ELSE /\ pc' = "returned"
          /\ ret' = [op |-> "each", n |-> GEOSGetNumGeometries(countOk),
                     value |-> self, skipped |-> {}]
  /\ UNCHANGED <<j, eql>>
  /\ UNCHANGED createVars

\* The loop of each given up one child early.
EachContinues_short(k, n) == k + 1 < n

\* Line 233: the loop test of each.
EachContinues(k, n) == k < n

\* Line 237: the element is passed to the block.
IsYielded(elem) == ~NIL_P(elem)

\* Lines 233-243: one iteration of the loop of each.
each_iteration(cloneOk) ==
  /\ pc = "each"
  /\ LET elem == rgeo_wrap_geos_geometry_clone(GEOSGetGeometryN(i),
                   IF NIL_P(self.klasses) THEN Qnil
                   ELSE rb_ary_entry(self.klasses, i), cloneOk)
         skipped == IF cloneOk THEN ret.skipped ELSE ret.skipped \cup {i}
     IN /\ yielded' = IF IsYielded(elem) THEN Append(yielded, elem) ELSE yielded
        /\ IF EachContinues(i + 1, ret.n)
           THEN /\ ret' = [ret EXCEPT !.skipped = skipped]
                /\ UNCHANGED pc
           ELSE /\ pc' = "returned"
                /\ ret' = [ret EXCEPT !.value = self, !.skipped = skipped]
  /\ i' = i + 1
  /\ UNCHANGED <<j, eql>>
  /\ UNCHANGED createVars

\* The line string of shape s is closed (a ring).
LineIsClosed(s) == s % 2 = 0

\* rgeo_is_geos_line_string_closed: Qtrue or Qfalse for the handle of a line
\* string; the handle of a collection has no coordinate sequence of its own
\* and the answer for it is not determined by this file.
rgeo_is_geos_line_string_closed(h) ==
  IF h \in DOMAIN array /\ h # collection
  THEN {IF LineIsClosed(array[h].g) THEN Qtrue ELSE Qfalse}
  ELSE {Qtrue, Qfalse, Qnil}

\* Line 298: the handle whose closedness iteration idx asks for.
HandleTestedForClosed(self_geom, geom) == self_geom

\* Lines 295-303: the loop of is_closed? from iteration idx on.  fetched is
\* the set of indexes GEOSGetGeometryN_r answers; closed maps each handle
\* to the answer of rgeo_is_geos_line_string_closed for it.
RECURSIVE is_closed_loop(_, _, _, _, _)
is_closed_loop(idx, cnt, res, fetched, closed) ==
  IF idx >= cnt THEN res
  ELSE IF idx \in fetched
       THEN LET r == closed[HandleTestedForClosed(self.geom, GEOSGetGeometryN(idx))]
            IN IF r # Qtrue THEN r
               ELSE is_closed_loop(idx + 1, cnt, r, fetched, closed)
       ELSE is_closed_loop(idx + 1, cnt, res, fetched, closed)

\* Lines 284-307.
method_multi_line_string_is_closed(countOk, fetched, closed) ==
  /\ pc = "done"
  /\ ~NIL_P(self)
  /\ self.type = GEOS_MULTILINESTRING
  /\ LET cnt == GEOSGetNumGeometries(countOk)
         v == IF self.geom = NULL THEN Qnil
              ELSE is_closed_loop(0, cnt, Qtrue, fetched, closed)
     IN ret' = [op |-> "is_closed", n |-> cnt, value |-> v,
                fetched |-> fetched]
  /\ pc' = "returned"
  /\ UNCHANGED <<i, j, yielded, eql>>
  /\ UNCHANGED createVars

IndexValues == (0 - MaxLen - 1)..(MaxLen + 1)

(* ----------------------------- comparator ----------------------------- *)
\* Engine geometries as the comparator sees them.  type is what
\* GEOSGeomTypeId_r answers (-1: the query fails), num what
\* GEOSGetNumGeometries_r answers (-1: the query fails), kids what
\* GEOSGetGeometryN_r answers for each index (the null geometry: the fetch
\* fails), coords the coordinates of a point, line or polygon.
NullGeometry == [null |-> TRUE]
UnrecognizedType == 8
Coords(xy, z, ok) == [xy |-> xy, z |-> z, ok |-> ok]
Leaf(t, c) == [null |-> FALSE, type |-> t, num |-> 1, kids |-> <<>>, coords |-> c]
Coll(t, kids, numOk) ==
  [null |-> FALSE, type |-> t, num |-> IF numOk THEN Len(kids) ELSE -1,
   kids |-> kids, coords |-> Coords(0, 0, TRUE)]

NestedKids ==
  {Leaf(GEOS_POINT, Coords(0, 0, TRUE)), Leaf(GEOS_POINT, Coords(1, 0, TRUE)),
   Leaf(GEOS_POINT, Coords(0, 0, FALSE)), Leaf(GEOS_POLYGON, Coords(0, 0, TRUE)),
   Leaf(-1, Coords(0, 0, TRUE)), Leaf(UnrecognizedType, Coords(0, 0, TRUE)),
   NullGeometry}

NestedCollections ==
  {Coll(GEOS_GEOMETRYCOLLECTION, kids, TRUE) :
     kids \in UNION {[1..n -> NestedKids] : n \in 0..MaxNestLen}}
    \cup {Coll(GEOS_GEOMETRYCOLLECTION, <<>>, FALSE),
          Coll(GEOS_MULTIPOINT, <<>>, TRUE),
          Coll(GEOS_MULTIPOINT, <<Leaf(GEOS_POINT, Coords(0, 0, TRUE))>>, TRUE)}

DeeperCollections ==
  {Coll(GEOS_GEOMETRYCOLLECTION, <<c>>, TRUE) :
     c \in {Coll(GEOS_GEOMETRYCOLLECTION, <<Leaf(GEOS_POINT, Coords(0, 0, FALSE))>>, TRUE),
            Coll(GEOS_GEOMETRYCOLLECTION, <<Leaf(GEOS_POINT, Coords(0, 0, TRUE))>>, TRUE),
            Coll(GEOS_GEOMETRYCOLLECTION, <<Leaf(GEOS_POINT, Coords(1, 0, TRUE))>>, TRUE)}}

\* What GEOSGetGeometryN_r can answer for a child of the outermost collections.
SubGeometries ==
  NestedKids
    \cup {Leaf(GEOS_POINT, Coords(0, 1, TRUE)), Leaf(GEOS_LINESTRING, Coords(0, 0, TRUE)),
          Leaf(GEOS_LINEARRING, Coords(0, 0, TRUE)),
          Leaf(GEOS_POLYGON, Coords(1, 0, TRUE)), Leaf(GEOS_POLYGON, Coords(0, 0, FALSE))}
    \cup NestedCollections \cup DeeperCollections

\* rgeo_geos_coordseqs_eql: three-valued; nil when a coordinate sequence
\* cannot be read.
rgeo_geos_coordseqs_eql(g1, g2, check_z) ==
  IF ~g1.coords.ok \/ ~g2.coords.ok THEN Qnil
  ELSE IF g1.coords.xy = g2.coords.xy /\ (check_z => g1.coords.z = g2.coords.z)
       THEN Qtrue ELSE Qfalse

\* rgeo_geos_polygons_eql: three-valued, ring by ring with the same test.
rgeo_geos_polygons_eql(g1, g2, check_z) == rgeo_geos_coordseqs_eql(g1, g2, check_z)

\* The loop left on false only, an indeterminate child being passed over.
LeavesLoop_onFalseOnly(r) == r = Qfalse

\* Lines 473 and 477-489: the loop is left after this child.
LeavesLoop(r) == ~RTEST(r)

\* Lines 477-480: the kinds of the two children differ.
KindsDiffer == Qfalse

RECURSIVE rgeo_geos_geometry_collections_eql(_, _, _)
RECURSIVE eql_loop(_, _, _, _, _)
RECURSIVE eql_child(_, _, _)

\* Lines 447-490: the value the loop body gives result for one pair of
\* children.
eql_child(sub_geom1, sub_geom2, check_z) ==
  IF ~sub_geom1.null /\ ~sub_geom2.null
  THEN LET type1 == sub_geom1.type
           type2 == sub_geom2.type
       IN IF type1 >= 0 /\ type2 >= 0
          THEN IF type1 = type2
               THEN CASE type1 \in {GEOS_POINT, GEOS_LINESTRING, GEOS_LINEARRING} ->
                           rgeo_geos_coordseqs_eql(sub_geom1, sub_geom2, check_z)
                      [] type1 = GEOS_POLYGON ->
                           rgeo_geos_polygons_eql(sub_geom1, sub_geom2, check_z)
                      [] type1 \in CollectionTypes ->
                           rgeo_geos_geometry_collections_eql(sub_geom1, sub_geom2, check_z)
                      [] OTHER -> Qnil
               ELSE KindsDiffer
          ELSE Qnil
  ELSE Qnil

\* Lines 446-491: the loop from index idx on, over two given geometries.
eql_loop(geom1, geom2, idx, res, check_z) ==
  IF idx >= geom1.num THEN res
  ELSE LET r == eql_child(geom1.kids[idx + 1], geom2.kids[idx + 1], check_z)
       IN IF LeavesLoop(r) THEN r
          ELSE eql_loop(geom1, geom2, idx + 1, r, check_z)

\* Lines 436-499.
rgeo_geos_geometry_collections_eql(geom1, geom2, check_z) ==
  IF ~geom1.null /\ ~geom2.null
  THEN LET len1 == geom1.num
           len2 == geom2.num
       IN IF len1 >= 0 /\ len2 >= 0
          THEN IF len1 = len2
               THEN eql_loop(geom1, geom2, 0, Qtrue, check_z)
               ELSE Qfalse
          ELSE Qnil
  ELSE Qnil

NoEql ==
  [len1 |-> 0, len2 |-> 0, check_z |-> FALSE, i |-> 0, result |-> Qnil,
   sub_geom1 |-> NullGeometry, sub_geom2 |-> NullGeometry, cmps |-> <<>>]

\* Lines 436-446 of the outermost call: geom1 and geom2 are the handles of
\* two collections (null1, null2: the handle is NULL) whose child counts the
\* engine reports as len1 and len2.
eql_call(null1, null2, len1, len2, check_z) ==
  /\ pc = "idle"
  /\ LET entersLoop == ~null1 /\ ~null2 /\ len1 >= 0 /\ len2 >= 0 /\ len1 = len2
         value == IF ~null1 /\ ~null2
                  THEN IF len1 >= 0 /\ len2 >= 0
                       THEN IF len1 = len2 THEN Qtrue ELSE Qfalse
                       ELSE Qnil
                  ELSE Qnil
     IN /\ eql' = [NoEql EXCEPT !.len1 = len1, !.len2 = len2,
                                !.check_z = check_z, !.result = value]
        /\ IF entersLoop /\ 0 < len1
           THEN /\ pc' = "eql"
                /\ ret' = [op |-> "eql", n |-> IF null1 \/ null2 THEN 0 ELSE 1,
                           value |-> Qnil]
           ELSE /\ pc' = "returned"
                /\ ret' = [op |-> "eql", n |-> IF null1 \/ null2 THEN 0 ELSE 1,
                           value |-> value]
  /\ UNCHANGED <<i, j, yielded>>
  /\ UNCHANGED createVars

\* Lines 446-491 of the outermost call: one iteration; the engine answers
\* the two fetches of lines 447-448 with sub_geom1 and sub_geom2.
eql_iteration(sub_geom1, sub_geom2) ==
  /\ pc = "eql"
  /\ LET r == eql_child(sub_geom1, sub_geom2, eql.check_z)
     IN /\ eql' = [eql EXCEPT !.result = r, !.i = eql.i + 1,
                              !.sub_geom1 = sub_geom1, !.sub_geom2 = sub_geom2,
                              !.cmps = Append(eql.cmps, r)]
        /\ IF LeavesLoop(r) \/ ~(eql.i + 1 < eql.len1)
           THEN /\ pc' = "returned"
                /\ ret' = [ret EXCEPT !.value = r]
           ELSE UNCHANGED <<pc, ret>>
  /\ UNCHANGED <<i, j, yielded>>
  /\ UNCHANGED createVars

EqlLengths == (0 - 1)..MaxEqlLen

(* ------------------------------ the caller ---------------------------- *)
\* The first element the conversion rejects (0-based), len when there is none.
FirstBad ==
  IF \A k \in 1..len : array[k].conv = "ok" THEN len
  ELSE (CHOOSE k \in 1..len :
          /\ array[k].conv # "ok"
          /\ \A m \in 1..(k - 1) : array[m].conv = "ok") - 1

\* The create call that returned has failed: an element was rejected, or the
\* engine did not assemble the collection, or the assertions rejected it.
CreateFailed == pc = "done" /\ (FirstBad < len \/ collection = NULL)

FailureKind == IF FirstBad < len THEN "invalid element" ELSE "invalid arrangement"

CurrentFailure ==
  IF CreateFailed THEN {[kind |-> FailureKind, value |-> result]} ELSE {}

\* The caller takes note of the outcome of a create call and is ready for
\* the next one.
release ==
  /\ pc = "done"
  /\ pc' = "idle"
  /\ failures' = failures \cup CurrentFailure
  /\ type' = GEOS_GEOMETRYCOLLECTION
  /\ flags' = 0
  /\ array' = <<>>
  /\ i' = 0
  /\ j' = 0
  /\ geoms' = <<>>
  /\ klasses' = Qnil
  /\ collection' = NULL
  /\ result' = Qnil
  /\ children' = <<>>
  /\ alive' = {}
  /\ destroyed' = <<>>
  /\ assembled' = <<>>
  /\ UNCHANGED <<ret, yielded, eql>>

(* ------------------------------ the program --------------------------- *)
Init ==
  /\ pc = "idle"
  /\ type = GEOS_GEOMETRYCOLLECTION
  /\ flags = 0
  /\ array = <<>>
  /\ i = 0
  /\ j = 0
  /\ geoms = <<>>
  /\ klasses = Qnil
  /\ collection = NULL
  /\ result = Qnil
  /\ children = <<>>
  /\ alive = {}
  /\ destroyed = <<>>
  /\ assembled = <<>>
  /\ ret = NoReturn
  /\ yielded = <<>>
  /\ eql = NoEql
  /\ failures = {}

CreateNext ==
  \/ /\ pc = "idle"
     /\ \E ty \in CollectionTypes, fl \in FlagValues, arr \in Arrays :
          create_geometry_collection(ty, fl, arr)
  \/ create_convert
  \/ create_rollback
  \/ \E outcome \in {"ok", "failed_and_freed", "failed_and_leaked"} :
       create_assemble(outcome)
  \/ \E exc2 \in BOOLEAN, exc1 \in BOOLEAN : create_validate(exc2, exc1)
  \/ create_wrap

EachNext ==
  \/ \E countOk \in BOOLEAN : method_geometry_collection_each(countOk)
  \/ \E cloneOk \in BOOLEAN : each_iteration(cloneOk)

AccessNext ==
  \/ /\ pc = "done"
     /\ \E n \in IndexValues, countOk \in BOOLEAN, cloneOk \in BOOLEAN :
          method_geometry_collection_geometry_n(n, countOk, cloneOk)
  \/ /\ pc = "done"
     /\ \E n \in IndexValues, countOk \in BOOLEAN, cloneOk \in BOOLEAN :
          method_geometry_collection_brackets(n, countOk, cloneOk)
  \/ /\ pc = "done"
     /\ \E countOk \in BOOLEAN, fetched \in SUBSET (0..(Len(children) - 1)) :
          \E closed \in [1..(len + 1) -> {Qtrue, Qfalse, Qnil}] :
            /\ \A h \in 1..(len + 1) : closed[h] \in rgeo_is_geos_line_string_closed(h)
            /\ method_multi_line_string_is_closed(countOk, fetched, closed)

EqlNext ==
  \/ /\ pc = "idle"
     /\ \E null1 \in BOOLEAN, null2 \in BOOLEAN, len1 \in EqlLengths,
           len2 \in EqlLengths, check_z \in BOOLEAN :
          eql_call(null1, null2, len1, len2, check_z)
  \/ /\ pc = "eql"
     /\ \E sub_geom1 \in SubGeometries, sub_geom2 \in SubGeometries :
          eql_iteration(sub_geom1, sub_geom2)

\* Everything: one create call followed by one accessor call, or one call
\* of the comparator.
Next ==
  \/ CreateNext
  \/ EachNext
  \/ AccessNext
  \/ EqlNext

Spec == Init /\ [][Next]_vars

\* The constructor alone.
CreateSpec == Init /\ [][CreateNext]_vars

\* The constructor called again and again, the caller keeping the history
\* of its failures.
RepeatNext ==
  \/ CreateNext
  \/ release

RepeatSpec == Init /\ [][RepeatNext]_vars

\* A collection is constructed and iterated over.
EachCallNext ==
  \/ CreateNext
  \/ EachNext

EachSpec == Init /\ [][EachCallNext]_vars

\* The comparator alone.
EqlSpec == Init /\ [][EqlNext]_vars

(* ============================ the properties =========================== *)
Handles == 1..len

\* The clone the accessors hand out for child idx (0-based): a copy of the
\* child's geometry carrying the tag the caller supplied for that element.
CloneOfChild(idx) ==
  [class |-> "Geometry", clone_of |-> children[idx + 1],
   g |-> array[children[idx + 1]].g, klass |-> array[children[idx + 1]].klass]

(* C1: when the conversion of element k fails after elements 0..k-1 were   *)
(* converted, each of the handles 0..k-1 is destroyed exactly once, no     *)
(* handle of the call remains alive, nothing else is destroyed, the engine *)
(* is never asked to assemble a collection and create returns nil.         *)
C1_RollbackOnConversionFailure ==
  (pc = "done" /\ FirstBad < len) =>
    /\ \A h \in 1..FirstBad : destroyed[h] = 1
    /\ \A h \in (FirstBad + 1)..(len + 1) : destroyed[h] = 0
    /\ alive = {}
    /\ assembled = <<>>
    /\ collection = NULL
    /\ NIL_P(result)

C1_Witness ==
  /\ pc = "done"
  /\ FirstBad >= 2
  /\ FirstBad < len
  /\ \A h \in 1..FirstBad : destroyed[h] = 1

(* C2: on the failure paths after all n elements converted (the engine     *)
(* does not assemble the collection, or the MultiPolygon assertions reject *)
(* it), no converted element handle remains alive when create returns,     *)
(* none was destroyed more than once, and no collection is produced.       *)
C2_AtomicAfterConversion ==
  (pc = "done" /\ FirstBad = len /\ collection = NULL) =>
    /\ alive \cap Handles = {}
    /\ \A h \in Handles : destroyed[h] <= 1
    /\ NIL_P(result)

(* C3: for every index i with 0 <= i < n, elementAt(i) and elementAt(i - n) *)
(* return to the caller a clone of child i.  Read in the way most          *)
(* favourable to the code: the non-negative form through geometry_n and    *)
(* [], the negative form through [] (geometry_n refuses negative indexes), *)
(* the engine answering the count query and producing the clone.           *)
C3_ElementAtBothForms ==
  (/\ pc = "returned"
   /\ ret.op \in {"geometry_n", "brackets"}
   /\ ret.engineOk
   /\ ret.n >= (IF ret.op = "brackets" THEN 0 - Len(children) ELSE 0)
   /\ ret.n < Len(children)) =>
    ret.value = CloneOfChild(IF ret.n < 0 THEN ret.n + Len(children) ELSE ret.n)

(* C4: is_closed? of a MultiLineString is true if and only if every member *)
(* line string is closed (true for zero members), and false when a member  *)
(* is open (the engine answering the count query and every fetch).         *)
AllMembersClosed ==
  \A k \in 1..Len(children) : LineIsClosed(array[children[k]].g)

C4_IsClosedIffAllClosed ==
  (/\ pc = "returned"
   /\ ret.op = "is_closed"
   /\ ret.n = Len(children)
   /\ ret.fetched = 0..(Len(children) - 1)) =>
    /\ (ret.value = Qtrue) <=> AllMembersClosed
    /\ ~AllMembersClosed => ret.value = Qfalse

(* C5: a failure caused by an invalid element and a failure caused by an   *)
(* invalid arrangement never produce the same result value.                *)
AllFailures == failures \cup CurrentFailure

C5_FailureKindsDistinguishable ==
  \A f \in AllFailures : \A g \in AllFailures :
    f.kind # g.kind => f.value # g.value

(* C5 as amended: every failed construction, of either kind, returns nil   *)
(* and produces no collection, and a construction that did not fail        *)
(* returns a collection object; the result value does not tell the two     *)
(* kinds of failure apart.                                                 *)
C5_EveryFailureReturnsNil ==
  /\ \A f \in AllFailures : f.value = Qnil
  /\ CreateFailed => collection = NULL
  /\ (pc = "done" /\ ~CreateFailed) => ~NIL_P(result)

C5_Witness ==
  /\ [kind |-> "invalid element", value |-> Qnil] \in AllFailures
  /\ [kind |-> "invalid arrangement", value |-> Qnil] \in AllFailures

(* C6: a MultiPolygon built from polygons of which two have overlapping    *)
(* interiors (all elements converted): with the assertions enabled (flags  *)
(* bit 0 clear) create returns nil; with the assertions disabled (bit 0    *)
(* set) and the engine assembling the collection, create returns the       *)
(* collection of exactly those polygons.                                   *)
SomePairOverlaps ==
  \E a \in 1..len : \E b \in 1..len :
    a # b /\ InteriorsOverlap(array[a].g, array[b].g)

C6_OverlapFailsOnlyUnderValidation ==
  (/\ pc = "done"
   /\ type = GEOS_MULTIPOLYGON
   /\ FirstBad = len
   /\ SomePairOverlaps) =>
    /\ (flags % 2 = 0) => (NIL_P(result) /\ collection = NULL)
    /\ (flags % 2 = 1 /\ assembled = <<"ok">>) =>
         /\ ~NIL_P(result)
         /\ result.geom = len + 1
         /\ result.geom \in alive
         /\ children = [k \in 1..len |-> k]

C6_Witness ==
  /\ pc = "done"
  /\ type = GEOS_MULTIPOLYGON
  /\ len = 2
  /\ FirstBad = len
  /\ SomePairOverlaps
  /\ flags % 2 = 0
  /\ assembled = <<"ok">>
  /\ NIL_P(result)

(* C7: a MultiPolygon built from two polygons that share only a boundary   *)
(* edge is constructed when the assertions are enabled (the engine         *)
(* assembling the collection).                                             *)
SharesOnlyEdge(s, t) == BoundariesShareLine(s, t) /\ ~InteriorsOverlap(s, t)

TwoPolygonsSharingAnEdge ==
  /\ type = GEOS_MULTIPOLYGON
  /\ len = 2
  /\ FirstBad = len
  /\ SharesOnlyEdge(array[1].g, array[2].g)
  /\ flags % 2 = 0

C7_SharedEdgeAccepted ==
  (pc = "done" /\ TwoPolygonsSharingAnEdge /\ assembled = <<"ok">>) =>
    ~NIL_P(result)

(* C7 as amended: a MultiPolygon built from two polygons that share a      *)
(* boundary edge is rejected when the assertions are enabled: create       *)
(* returns nil and the collection and both polygons are destroyed once.    *)
C7_SharedEdgeRejected ==
  (pc = "done" /\ TwoPolygonsSharingAnEdge) =>
    /\ NIL_P(result)
    /\ collection = NULL
    /\ assembled = <<"ok">> =>
         (alive = {} /\ \A h \in 1..(len + 1) : destroyed[h] = 1)

C7_Witness ==
  /\ pc = "done"
  /\ TwoPolygonsSharingAnEdge
  /\ assembled = <<"ok">>
  /\ NIL_P(result)
  /\ alive = {}

(* C8: for two non-null collections with the same valid child count the    *)
(* comparator returns true only if every child comparison, in index order, *)
(* returned true; otherwise it stops at the first child whose comparison   *)
(* is false or indeterminate and returns that value.  A failed fetch, a    *)
(* failed kind query and an unrecognized kind are indeterminate, differing *)
(* kinds are false, and an indeterminate comparison inside a nested        *)
(* collection stays indeterminate.                                         *)
RECURSIVE ChildVerdict(_, _, _)
ChildVerdict(a, b, z) ==
  IF a.null \/ b.null THEN Qnil
  ELSE IF a.type < 0 \/ b.type < 0 THEN Qnil
  ELSE IF a.type # b.type THEN Qfalse
  ELSE IF a.type \in {GEOS_POINT, GEOS_LINESTRING, GEOS_LINEARRING}
       THEN rgeo_geos_coordseqs_eql(a, b, z)
  ELSE IF a.type = GEOS_POLYGON THEN rgeo_geos_polygons_eql(a, b, z)
  ELSE IF a.type \notin CollectionTypes THEN Qnil
  ELSE IF a.num < 0 \/ b.num < 0 THEN Qnil
  ELSE IF a.num # b.num THEN Qfalse
  ELSE LET nottrue == {k \in 1..a.num : ChildVerdict(a.kids[k], b.kids[k], z) # Qtrue}
       IN IF nottrue = {} THEN Qtrue
          ELSE LET first == CHOOSE k \in nottrue : \A m \in nottrue : k <= m
               IN ChildVerdict(a.kids[first], b.kids[first], z)

EqlCompared == Len(eql.cmps)

C8_FirstNonTrueChildDecides ==
  (ret.op = "eql" /\ ret.n = 1 /\ eql.len1 >= 0 /\ eql.len1 = eql.len2) =>
    /\ EqlCompared = eql.i
    /\ EqlCompared <= eql.len1
    /\ EqlCompared > 0 =>
         eql.cmps[EqlCompared] = ChildVerdict(eql.sub_geom1, eql.sub_geom2, eql.check_z)
    /\ \A k \in 1..(EqlCompared - 1) : eql.cmps[k] = Qtrue
    /\ pc = "returned" =>
         /\ ret.value = eql.result
         /\ (ret.value = Qtrue) <=>
              (EqlCompared = eql.len1 /\ \A k \in 1..EqlCompared : eql.cmps[k] = Qtrue)
         /\ ret.value # Qtrue =>
              (EqlCompared > 0 /\ ret.value = eql.cmps[EqlCompared])

\* The comparison stopped at the second child, on an indeterminate answer
\* that comes out of a nested collection.
C8_Witness ==
  /\ pc = "returned"
  /\ ret.op = "eql"
  /\ eql.len1 = 2
  /\ eql.len2 = 2
  /\ eql.i = 2
  /\ eql.cmps = <<Qtrue, Qnil>>
  /\ ~eql.sub_geom1.null
  /\ ~eql.sub_geom2.null
  /\ eql.sub_geom1.type = GEOS_GEOMETRYCOLLECTION
  /\ eql.sub_geom2.type = GEOS_GEOMETRYCOLLECTION
  /\ eql.sub_geom1.num = 1
  /\ eql.sub_geom2.num = 1
  /\ ret.value = Qnil

(* C9: each over a collection of n children calls the block exactly n      *)
(* times, once per child, with a clone of child 0, 1, ..., n-1 in that     *)
(* order, and zero times for zero children (the engine answering the count *)
(* query and producing every clone).  In general the block is called, in   *)
(* index order, once for every child whose clone the engine produced and   *)
(* for nothing else, and each returns the collection itself.               *)
VisitedIndexes ==
  SelectSeq([k \in 1..i |-> k - 1], LAMBDA x : x \notin ret.skipped)

C9_EachVisitsClonesInOrder ==
  (ret.op = "each" /\ pc \in {"each", "returned"}) =>
    /\ yielded = [k \in 1..Len(VisitedIndexes) |-> CloneOfChild(VisitedIndexes[k])]
    /\ pc = "returned" =>
         /\ ret.value = self
         /\ i = (IF ret.n > 0 THEN ret.n ELSE 0)
         /\ (ret.n = Len(children) /\ ret.skipped = {}) =>
              /\ Len(yielded) = Len(children)
              /\ \A k \in 1..Len(children) : yielded[k] = CloneOfChild(k - 1)

\* A traversal of three children that has ended, every clone produced.
C9_Witness ==
  /\ pc = "returned"
  /\ ret.op = "each"
  /\ Len(children) = 3
  /\ ret.n = 3
  /\ ret.skipped = {}
  /\ Len(yielded) = 3
  /\ yielded[1] = CloneOfChild(0)
  /\ yielded[3] = CloneOfChild(2)

(* C10: after every iteration of the conversion loop, and on every         *)
(* collection constructed, the tag array is absent exactly when no element *)
(* converted so far yielded a tag; otherwise it has one slot per element   *)
(* converted so far (n on success), slot k holding the tag of element k or *)
(* nil, so that the slots before the first tagged element are nil.         *)
SparseTags(ks, n) ==
  IF \A k \in 1..n : NIL_P(array[k].klass)
  THEN NIL_P(ks)
  ELSE ks = [class |-> "Array", ary |-> [k \in 1..n |-> array[k].klass]]

C10_SparseTagInvariant ==
  /\ pc \in {"convert", "after_loop"} => SparseTags(klasses, i)
  /\ (pc = "done" /\ ~NIL_P(result)) =>
       (SparseTags(result.klasses, len) /\ Len(children) = len)

\* A collection whose first element had no tag and whose second had one.
C10_Witness ==
  /\ pc = "done"
  /\ ~NIL_P(result)
  /\ len >= 2
  /\ NIL_P(array[1].klass)
  /\ ~NIL_P(array[2].klass)
  /\ Len(result.klasses.ary) = len
  /\ NIL_P(result.klasses.ary[1])
====
